---- MODULE Spec2Model ----
(***************************************************************************)
(* Model of examples/pervasive/modules/archive/densenet_nonorm.py:         *)
(*   DenseNetNoNorm  (__init__, forward)                                   *)
(*   _DenseLayer     (__init__, bottleneck_function, forward)              *)
(*   PervasiveBatchNorm (__init__, reset_running_stats, forward)           *)
(* Tensors are symbolic: a tensor is a record holding the term that        *)
(* computed it (val), its named dimensions (dims), its requires_grad flag  *)
(* and the set of index positions a masked_fill has set to zero (zero).    *)
(* Specifications:                                                         *)
(*   Spec      one call of DenseNetNoNorm.forward, statement by statement  *)
(*   SpecLayer one call of _DenseLayer.forward, statement by statement     *)
(*   SpecPad   the padding of _DenseLayer.__init__ and the lengths it      *)
(*             gives the convolution                                       *)
(*   SpecBN    PervasiveBatchNorm under any sequence of forward and        *)
(*             reset_running_stats calls                                   *)
(***************************************************************************)
EXTENDS Integers, Sequences, FiniteSets

\* ---------------------------------------------------------------- bounds
MaxLayers == 3
MaxInitFeatures == 3
MaxDivide == 2
TtLen == 2
TsLen == 2
MaxPrev == 2
MaxKernel == 4
MaxDilation == 3
MaxBatches == 3

GrowthRates == {1, 2}
BnSizes == {2}
DropRates == {0, 20}         \* convolution_dropout, in percent

\* Python's None
None == [none |-> TRUE]

\* ------------------------------------------------------- tensor algebra
Term(op, idx, args) == [op |-> op, idx |-> idx, args |-> args]

Dim(axis, size) == [axis |-> axis, size |-> size]

RECURSIVE SumSizes(_, _)
SumSizes(tensors, d) ==
    IF tensors = <<>> THEN 0
    ELSE Head(tensors).dims[d + 1].size + SumSizes(Tail(tensors), d)

AnyRequiresGrad(tensors) ==
    \E k \in 1..Len(tensors) : tensors[k].requires_grad

\* Tensor.permute(*p): output dimension j is input dimension p[j]. The
\* result is a new tensor: without grad mode it does not require a gradient.
permute(t, p, grad) ==
    [t EXCEPT !.dims = [j \in 1..Len(p) |-> t.dims[p[j] + 1]],
              !.requires_grad = grad /\ t.requires_grad]

\* torch.cat(tensors, d)
torch_cat(tensors, d, grad) ==
    [val |-> Term("cat", d, [k \in 1..Len(tensors) |-> tensors[k].val]),
     dims |-> [tensors[1].dims EXCEPT ![d + 1].size = SumSizes(tensors, d)],
     requires_grad |-> grad /\ AnyRequiresGrad(tensors),
     zero |-> {}]

\* F.relu(t)
relu(t, grad) ==
    [val |-> Term("relu", 0, <<t.val>>),
     dims |-> t.dims,
     requires_grad |-> grad /\ t.requires_grad,
     zero |-> {}]

\* nn.Linear(in_features, out_features) applied to t: acts on the last dimension.
LinearForward(m, t, grad) ==
    [val |-> Term("reduce_channels", 0, <<t.val>>),
     dims |-> [t.dims EXCEPT ![Len(t.dims)].size = m.out_features],
     requires_grad |-> grad,
     zero |-> {}]

\* Linear(in_features, out_features, bias=True)
Linear(in_features, out_features) ==
    [in_features |-> in_features, out_features |-> out_features]

\* Index positions of a tensor, one index (1-based) per dimension.
RECURSIVE Positions(_)
Positions(dims) ==
    IF dims = <<>> THEN {<<>>}
    ELSE {<<i>> \o rest : i \in 1..Head(dims).size, rest \in Positions(Tail(dims))}

\* Tensor.unsqueeze(d) of a boolean mask [sizes, true]; d may be negative.
unsqueeze(m, d) ==
    LET n == Len(m.sizes)
        at == IF d < 0 THEN d + n + 1 ELSE d
        ins(s) == SubSeq(s, 1, at) \o <<1>> \o SubSeq(s, at + 1, n)
    IN [sizes |-> ins(m.sizes), true |-> {ins(i) : i \in m.true}]

\* Tensor.masked_fill(mask, 0): the mask is broadcast against t.
masked_fill(t, m, grad) ==
    LET bc(pos) == [k \in 1..Len(pos) |-> IF m.sizes[k] = 1 THEN 1 ELSE pos[k]]
    IN [val |-> Term("masked_fill", 0, <<t.val>>),
        dims |-> t.dims,
        requires_grad |-> grad /\ t.requires_grad,
        zero |-> t.zero \cup {pos \in Positions(t.dims) : bc(pos) \in m.true}]

\* F.dropout(t, p, training): the identity outside training.
dropout(t, training, grad) ==
    IF training
    THEN [val |-> Term("dropout", 0, <<t.val>>), dims |-> t.dims,
          requires_grad |-> grad /\ t.requires_grad, zero |-> {}]
    ELSE t

\* ---------------------------------------------------------- _DenseLayer
\* _DenseLayer.__init__ (idx is the layer's position in dense_layers: the
\* identity of its weights)
DenseLayer_init(idx, num_input_features, args) ==
    LET inter_features == args.bn_size * args.growth_rate
    IN [idx |-> idx,
        memory_efficient |-> args.memory_efficient,
        drop_rate |-> args.convolution_dropout,
        conv1 |-> [in_channels |-> num_input_features,
                   out_channels |-> inter_features],
        mconv2 |-> [in_channels |-> inter_features,
                    out_channels |-> args.growth_rate]]

\* self.conv1(x): 1x1 convolution over the channel dimension (dim 1)
conv1(layer, t, grad) ==
    [val |-> Term("conv1", layer.idx, <<t.val>>),
     dims |-> [t.dims EXCEPT ![2].size = layer.conv1.out_channels],
     requires_grad |-> grad,
     zero |-> {}]

\* self.mconv2(x, incremental_state): MaskedConvolution, by its call
\* contract: growth_rate channels out, target and source lengths kept.
mconv2(layer, t, grad) ==
    [val |-> Term("mconv2", layer.idx, <<t.val>>),
     dims |-> [t.dims EXCEPT ![2].size = layer.mconv2.out_channels],
     requires_grad |-> grad,
     zero |-> {}]

\* _DenseLayer.bottleneck_function(*inputs)
bottleneck_function(layer, inputs, grad) ==
    conv1(layer, relu(torch_cat(inputs, 1, grad), grad), grad)

\* cp.checkpoint(fn, *inputs), forward pass: fn runs once, without
\* recording the graph; the result is attached to the graph afterwards.
checkpoint(layer, inputs, grad) ==
    [bottleneck_function(layer, inputs, FALSE) EXCEPT
        !.requires_grad = grad /\ AnyRequiresGrad(inputs)]

\* UseCheckpoint asking every input to require a gradient
UseCheckpoint_all(layer, prev_features) ==
    layer.memory_efficient /\
    \A k \in 1..Len(prev_features) : prev_features[k].requires_grad

\* the condition of the if in _DenseLayer.forward
UseCheckpoint(layer, prev_features) ==
    layer.memory_efficient /\ AnyRequiresGrad(prev_features)

Ev(op, under_cp) == [op |-> op, under_checkpoint |-> under_cp]

\* x.masked_fill(encoder_mask.unsqueeze(1).unsqueeze(1), 0)
EncoderMaskFill(t, encoder_mask, grad) ==
    masked_fill(t, unsqueeze(unsqueeze(encoder_mask, 1), 1), grad)

\* DecoderMaskFill unsqueezing the decoder mask as the encoder mask is
DecoderMaskFill_source(t, decoder_mask, grad) ==
    masked_fill(t, unsqueeze(unsqueeze(decoder_mask, 1), 1), grad)

\* x.masked_fill(decoder_mask.unsqueeze(1).unsqueeze(-1), 0)
DecoderMaskFill(t, decoder_mask, grad) ==
    masked_fill(t, unsqueeze(unsqueeze(decoder_mask, 1), -1), grad)

\* the guards of the masking block of _DenseLayer.forward
MasksEncoder(training, encoder_mask) == training /\ encoder_mask # None

MasksDecoder(training, decoder_mask) == training /\ decoder_mask # None

\* if self.drop_rate:
CallsDropout(layer) == layer.drop_rate # 0

\* _DenseLayer.forward as one call: the returned tensor (out) and the path
\* taken for the bottleneck.
DenseLayer_forward(layer, prev_features, training, encoder_mask, decoder_mask, grad) ==
    LET cp == UseCheckpoint(layer, prev_features)
        b  == IF cp THEN checkpoint(layer, prev_features, grad)
                    ELSE bottleneck_function(layer, prev_features, grad)
        r  == relu(b, grad)
        m1 == IF MasksEncoder(training, encoder_mask)
              THEN EncoderMaskFill(r, encoder_mask, grad) ELSE r
        m2 == IF MasksDecoder(training, decoder_mask)
              THEN DecoderMaskFill(m1, decoder_mask, grad) ELSE m1
        c  == mconv2(layer, m2, grad)
        o  == IF CallsDropout(layer) THEN dropout(c, training, grad) ELSE c
    IN [out |-> o,
        layer |-> layer.idx,
        inputs |-> prev_features,
        path |-> IF cp THEN "checkpoint" ELSE "direct"]

\* ------------------------------------------------------- DenseNetNoNorm
\* the for loop of DenseNetNoNorm.__init__: appends one layer per iteration
\* and adds growth_rate to num_features
RECURSIVE InitLoop(_, _, _, _)
InitLoop(k, layers, num_features, args) ==
    IF k >= args.num_layers
    THEN [dense_layers |-> layers, num_features |-> num_features]
    ELSE InitLoop(k + 1,
                  Append(layers, DenseLayer_init(k, num_features, args)),
                  num_features + args.growth_rate,
                  args)

\* DenseNetNoNorm.__init__ without num_features = num_features // divide_channels
DenseNetNoNorm_init_undivided(num_init_features, args) ==
    LET built == InitLoop(0, <<>>, num_init_features, args)
    IN [reduce_channels |->
            IF args.divide_channels > 1
            THEN Linear(num_init_features,
                        num_init_features \div args.divide_channels)
            ELSE None,
        dense_layers |-> built.dense_layers,
        output_channels |-> built.num_features]

\* DenseNetNoNorm.__init__
DenseNetNoNorm_init(num_init_features, args) ==
    LET num_features == num_init_features \div args.divide_channels
        built == InitLoop(0, <<>>, num_features, args)
    IN [reduce_channels |->
            IF args.divide_channels > 1
            THEN Linear(num_init_features,
                        num_init_features \div args.divide_channels)
            ELSE None,
        dense_layers |-> built.dense_layers,
        output_channels |-> built.num_features]

VARIABLES
    \* DenseNetNoNorm and one call of its forward
    args,            \* the constructor's args
    num_init,        \* num_init_features
    net,             \* the constructed DenseNetNoNorm
    call,            \* arguments of the forward call and its context
    pc,              \* position in DenseNetNoNorm.forward
    x,               \* forward's local x
    features,        \* forward's local list
    calls,           \* one record per dense layer call, in call order
    trace,           \* the steps of forward executed so far
    \* one _DenseLayer and one call of its forward
    lyr,             \* the constructed _DenseLayer
    prev,            \* prev_features
    lcall,           \* the other arguments of the call and its context
    lpc,             \* position in _DenseLayer.forward
    lx,              \* forward's local x
    levents,         \* the operations executed so far, in order
    conv_in,         \* the tensor passed to self.mconv2
    \* the padding computed by _DenseLayer.__init__ and the lengths it gives
    pad,
    \* one PervasiveBatchNorm and the calls made on it
    bn,              \* the module: its attributes and registered buffers
    bn_last,         \* the last call and how it ended
    bn_train_calls   \* training-mode forward calls since the last reset

netVars == <<args, num_init, net, call, pc, x, features, calls, trace>>
layerVars == <<lyr, prev, lcall, lpc, lx, levents, conv_in>>
padVars == <<pad>>
bnVars == <<bn, bn_last, bn_train_calls>>
vars == <<netVars, layerVars, padVars, bnVars>>

Idle == [idle |-> TRUE]

NetIdle ==
    /\ args = Idle /\ num_init = 0 /\ net = Idle /\ call = Idle /\ pc = "idle"
    /\ x = Idle /\ features = <<>> /\ calls = <<>> /\ trace = <<>>

LayerIdle ==
    /\ lyr = Idle /\ prev = <<>> /\ lcall = Idle /\ lpc = "idle"
    /\ lx = Idle /\ levents = <<>> /\ conv_in = Idle

PadIdle == pad = Idle

BNIdle == bn = Idle /\ bn_last = Idle /\ bn_train_calls = 0

\* a boolean mask over one axis of length n, for a batch of one sentence:
\* the positions in S are selected
Mask(n, S) == [sizes |-> <<1, n>>, true |-> {<<1, j>> : j \in S}]

\* ------------------------------------------- DenseNetNoNorm.forward
ArgsSet ==
    [divide_channels : 1..MaxDivide,
     num_layers : 0..MaxLayers,
     growth_rate : GrowthRates,
     bn_size : BnSizes,
     memory_efficient : BOOLEAN,
     convolution_dropout : DropRates]

\* the input tensor, laid out B, Tt, Ts, C
InputTensor(C, rg) ==
    [val |-> Term("input", 0, <<>>),
     dims |-> <<Dim("B", 1), Dim("Tt", TtLen), Dim("Ts", TsLen), Dim("C", C)>>,
     requires_grad |-> rg,
     zero |-> {}]

CallSet ==
    [training : BOOLEAN,
     grad_enabled : BOOLEAN,
     x_requires_grad : BOOLEAN,
     encoder_mask : {None, Mask(TsLen, {TsLen})},
     decoder_mask : {None, Mask(TtLen, {TtLen})}]

NetInit ==
    /\ args \in ArgsSet
    /\ num_init \in 1..MaxInitFeatures
    /\ net = DenseNetNoNorm_init(num_init, args)
    /\ call \in CallSet
    /\ pc = "reduce"
    /\ x = InputTensor(num_init, call.x_requires_grad)
    /\ features = <<>>
    /\ calls = <<>>
    /\ trace = <<>>

\* if self.reduce_channels is not None: x = self.reduce_channels(x)
ReduceChannels ==
    /\ pc = "reduce"
    /\ net.reduce_channels # None
    /\ x' = LinearForward(net.reduce_channels, x, call.grad_enabled)
    /\ trace' = Append(trace, "reduce_channels")
    /\ pc' = "permute_in"
    /\ UNCHANGED <<args, num_init, net, call, features, calls>>
    /\ UNCHANGED <<layerVars, padVars, bnVars>>

SkipReduceChannels ==
    /\ pc = "reduce"
    /\ net.reduce_channels = None
    /\ pc' = "permute_in"
    /\ UNCHANGED <<args, num_init, net, call, x, features, calls, trace>>
    /\ UNCHANGED <<layerVars, padVars, bnVars>>

\* x = x.permute(0, 3, 1, 2); features = [x]
PermuteIn ==
    /\ pc = "permute_in"
    /\ x' = permute(x, <<0, 3, 1, 2>>, call.grad_enabled)
    /\ features' = <<x'>>
    /\ trace' = Append(trace, "permute(0,3,1,2)")
    /\ pc' = "layers"
    /\ UNCHANGED <<args, num_init, net, call, calls>>
    /\ UNCHANGED <<layerVars, padVars, bnVars>>

\* LayerStep keeping only x0 and the newest feature map in the list
LayerStep_replacing ==
    /\ pc = "layers"
    /\ Len(calls) < Len(net.dense_layers)
    /\ LET layer == net.dense_layers[Len(calls) + 1]
           r == DenseLayer_forward(layer, features, call.training,
                                   call.encoder_mask, call.decoder_mask,
                                   call.grad_enabled)
       IN /\ calls' = Append(calls, r)
          /\ x' = r.out
          /\ features' = <<features[1], r.out>>
          /\ trace' = Append(trace, "layer")
    /\ UNCHANGED <<args, num_init, net, call, pc>>
    /\ UNCHANGED <<layerVars, padVars, bnVars>>

\* one iteration of the for loop: x = layer(features, ...); features.append(x)
LayerStep ==
    /\ pc = "layers"
    /\ Len(calls) < Len(net.dense_layers)
    /\ LET layer == net.dense_layers[Len(calls) + 1]
           r == DenseLayer_forward(layer, features, call.training,
                                   call.encoder_mask, call.decoder_mask,
                                   call.grad_enabled)
       IN /\ calls' = Append(calls, r)
          /\ x' = r.out
          /\ features' = Append(features, r.out)
          /\ trace' = Append(trace, "layer")
    /\ UNCHANGED <<args, num_init, net, call, pc>>
    /\ UNCHANGED <<layerVars, padVars, bnVars>>

\* the loop is over: x = torch.cat(features, 1)
Concat ==
    /\ pc = "layers"
    /\ Len(calls) = Len(net.dense_layers)
    /\ x' = torch_cat(features, 1, call.grad_enabled)
    /\ trace' = Append(trace, "cat")
    /\ pc' = "permute_out"
    /\ UNCHANGED <<args, num_init, net, call, features, calls>>
    /\ UNCHANGED <<layerVars, padVars, bnVars>>

\* PermuteOut with the first permutation applied a second time
PermuteOut_repeated ==
    /\ pc = "permute_out"
    /\ x' = permute(x, <<0, 3, 1, 2>>, call.grad_enabled)
    /\ trace' = Append(trace, "permute(0,2,3,1)")
    /\ pc' = "done"
    /\ UNCHANGED <<args, num_init, net, call, features, calls>>
    /\ UNCHANGED <<layerVars, padVars, bnVars>>

\* x = x.permute(0, 2, 3, 1); return x
PermuteOut ==
    /\ pc = "permute_out"
    /\ x' = permute(x, <<0, 2, 3, 1>>, call.grad_enabled)
    /\ trace' = Append(trace, "permute(0,2,3,1)")
    /\ pc' = "done"
    /\ UNCHANGED <<args, num_init, net, call, features, calls>>
    /\ UNCHANGED <<layerVars, padVars, bnVars>>

Init == NetInit /\ LayerIdle /\ PadIdle /\ BNIdle

Next ==
    \/ ReduceChannels
    \/ SkipReduceChannels
    \/ PermuteIn
    \/ LayerStep
    \/ Concat
    \/ PermuteOut

Spec == Init /\ [][Next]_vars

\* ------------------------------------------------ _DenseLayer.forward
LayerArgsSet ==
    [growth_rate : {1},
     bn_size : BnSizes,
     memory_efficient : BOOLEAN,
     convolution_dropout : DropRates]

\* a list of n earlier feature maps (B, C, Tt, Ts), one channel each, with
\* the requires_grad flags rg
PrevFeatures(n, rg) ==
    [k \in 1..n |->
        [val |-> Term("feature", k, <<>>),
         dims |-> <<Dim("B", 1), Dim("C", 1), Dim("Tt", TtLen), Dim("Ts", TsLen)>>,
         requires_grad |-> rg[k],
         zero |-> {}]]

LayerCallSet ==
    [training : BOOLEAN,
     grad_enabled : BOOLEAN,
     encoder_mask : {None} \cup {Mask(TsLen, S) : S \in SUBSET (1..TsLen)},
     decoder_mask : {None} \cup {Mask(TtLen, S) : S \in SUBSET (1..TtLen)}]

LayerInit ==
    /\ \E n \in 1..MaxPrev : \E rg \in [1..n -> BOOLEAN] :
         /\ prev = PrevFeatures(n, rg)
         /\ \E a \in LayerArgsSet : lyr = DenseLayer_init(0, n, a)
    /\ lcall \in LayerCallSet
    /\ lpc = "bottleneck"
    /\ lx = None
    /\ levents = <<>>
    /\ conv_in = None

\* x = cp.checkpoint(self.bottleneck_function, *prev_features)
BottleneckCheckpointed ==
    /\ lpc = "bottleneck"
    /\ UseCheckpoint(lyr, prev)
    /\ lx' = checkpoint(lyr, prev, lcall.grad_enabled)
    /\ levents' = Append(levents, Ev("bottleneck_function", TRUE))
    /\ lpc' = "relu"
    /\ UNCHANGED <<lyr, prev, lcall, conv_in>>
    /\ UNCHANGED <<netVars, padVars, bnVars>>

\* x = self.bottleneck_function(*prev_features)
BottleneckDirect ==
    /\ lpc = "bottleneck"
    /\ ~UseCheckpoint(lyr, prev)
    /\ lx' = bottleneck_function(lyr, prev, lcall.grad_enabled)
    /\ levents' = Append(levents, Ev("bottleneck_function", FALSE))
    /\ lpc' = "relu"
    /\ UNCHANGED <<lyr, prev, lcall, conv_in>>
    /\ UNCHANGED <<netVars, padVars, bnVars>>

\* x = F.relu(x)
Relu ==
    /\ lpc = "relu"
    /\ lx' = relu(lx, lcall.grad_enabled)
    /\ levents' = Append(levents, Ev("relu", FALSE))
    /\ lpc' = "mask_encoder"
    /\ UNCHANGED <<lyr, prev, lcall, conv_in>>
    /\ UNCHANGED <<netVars, padVars, bnVars>>

\* if self.training: if encoder_mask is not None: x = x.masked_fill(...)
MaskEncoder ==
    /\ lpc = "mask_encoder"
    /\ MasksEncoder(lcall.training, lcall.encoder_mask)
    /\ lx' = EncoderMaskFill(lx, lcall.encoder_mask, lcall.grad_enabled)
    /\ levents' = Append(levents, Ev("masked_fill(encoder_mask)", FALSE))
    /\ lpc' = "mask_decoder"
    /\ UNCHANGED <<lyr, prev, lcall, conv_in>>
    /\ UNCHANGED <<netVars, padVars, bnVars>>

SkipMaskEncoder ==
    /\ lpc = "mask_encoder"
    /\ ~MasksEncoder(lcall.training, lcall.encoder_mask)
    /\ lpc' = "mask_decoder"
    /\ UNCHANGED <<lyr, prev, lcall, lx, levents, conv_in>>
    /\ UNCHANGED <<netVars, padVars, bnVars>>

\* if self.training: if decoder_mask is not None: x = x.masked_fill(...)
MaskDecoder ==
    /\ lpc = "mask_decoder"
    /\ MasksDecoder(lcall.training, lcall.decoder_mask)
    /\ lx' = DecoderMaskFill(lx, lcall.decoder_mask, lcall.grad_enabled)
    /\ levents' = Append(levents, Ev("masked_fill(decoder_mask)", FALSE))
    /\ lpc' = "mconv2"
    /\ UNCHANGED <<lyr, prev, lcall, conv_in>>
    /\ UNCHANGED <<netVars, padVars, bnVars>>

SkipMaskDecoder ==
    /\ lpc = "mask_decoder"
    /\ ~MasksDecoder(lcall.training, lcall.decoder_mask)
    /\ lpc' = "mconv2"
    /\ UNCHANGED <<lyr, prev, lcall, lx, levents, conv_in>>
    /\ UNCHANGED <<netVars, padVars, bnVars>>

\* x = self.mconv2(x, incremental_state)
MConv2 ==
    /\ lpc = "mconv2"
    /\ conv_in' = lx
    /\ lx' = mconv2(lyr, lx, lcall.grad_enabled)
    /\ levents' = Append(levents, Ev("mconv2", FALSE))
    /\ lpc' = "dropout"
    /\ UNCHANGED <<lyr, prev, lcall>>
    /\ UNCHANGED <<netVars, padVars, bnVars>>

\* if self.drop_rate: x = F.dropout(x, p=self.drop_rate, training=self.training)
Dropout ==
    /\ lpc = "dropout"
    /\ CallsDropout(lyr)
    /\ lx' = dropout(lx, lcall.training, lcall.grad_enabled)
    /\ levents' = Append(levents, Ev("dropout", FALSE))
    /\ lpc' = "return"
    /\ UNCHANGED <<lyr, prev, lcall, conv_in>>
    /\ UNCHANGED <<netVars, padVars, bnVars>>

SkipDropout ==
    /\ lpc = "dropout"
    /\ ~CallsDropout(lyr)
    /\ lpc' = "return"
    /\ UNCHANGED <<lyr, prev, lcall, lx, levents, conv_in>>
    /\ UNCHANGED <<netVars, padVars, bnVars>>

NextLayer ==
    \/ BottleneckCheckpointed
    \/ BottleneckDirect
    \/ Relu
    \/ MaskEncoder
    \/ SkipMaskEncoder
    \/ MaskDecoder
    \/ SkipMaskDecoder
    \/ MConv2
    \/ Dropout
    \/ SkipDropout

InitLayer == LayerInit /\ NetIdle /\ PadIdle /\ BNIdle

SpecLayer == InitLayer /\ [][NextLayer]_vars

\* ------------------------------------- the padding of _DenseLayer.mconv2
\* padding_trg, padding_src of _DenseLayer.__init__ (Python's * and // have
\* the same precedence and group left to right)
Padding(kernel_size, dilation) == (dilation * (kernel_size - 1)) \div 2

\* output length of a stride-1 convolution with this kernel size, dilation
\* and padding over an axis of length L
ConvOutLen(L, kernel_size, dilation, padding) ==
    L + 2 * padding - dilation * (kernel_size - 1)

PadInit ==
    /\ \E k \in 1..MaxKernel : \E dt \in 1..MaxDilation : \E ds \in 1..MaxDilation :
         pad = [kernel_size |-> k, target_dilation |-> dt, source_dilation |-> ds,
                Tt |-> TtLen, Ts |-> TsLen,
                padding |-> None, out |-> None, pc |-> "init"]

\* padding = (padding_trg, padding_src)
ComputePadding ==
    /\ pad.pc = "init"
    /\ pad' = [pad EXCEPT
                 !.padding = <<Padding(pad.kernel_size, pad.target_dilation),
                               Padding(pad.kernel_size, pad.source_dilation)>>,
                 !.pc = "built"]
    /\ UNCHANGED <<netVars, layerVars, bnVars>>

\* x = self.mconv2(x, incremental_state): the lengths of the result
Convolve ==
    /\ pad.pc = "built"
    /\ pad' = [pad EXCEPT
                 !.out = <<ConvOutLen(pad.Tt, pad.kernel_size,
                                      pad.target_dilation, pad.padding[1]),
                           ConvOutLen(pad.Ts, pad.kernel_size,
                                      pad.source_dilation, pad.padding[2])>>,
                 !.pc = "done"]
    /\ UNCHANGED <<netVars, layerVars, bnVars>>

InitPad == PadInit /\ NetIdle /\ LayerIdle /\ BNIdle

NextPad ==
    \/ ComputePadding
    \/ Convolve

SpecPad == InitPad /\ [][NextPad]_vars

\* -------------------------------------------------- PervasiveBatchNorm
\* exact arithmetic on fractions num/den, den > 0, in lowest terms
RECURSIVE GCD(_, _)
GCD(a, b) == IF b = 0 THEN a ELSE GCD(b, a % b)

Rat(n, d) ==
    LET g == GCD(IF n < 0 THEN -n ELSE n, d)
    IN [num |-> n \div g, den |-> d \div g]

RAdd(a, b) == Rat(a.num * b.den + b.num * a.den, a.den * b.den)

RSub(a, b) == Rat(a.num * b.den - b.num * a.den, a.den * b.den)

RMul(a, b) == Rat(a.num * b.num, a.den * b.den)

\* (1. - maf) * running + maf * current
MovingAverage(maf, running, current) ==
    RAdd(RMul(RSub(Rat(1, 1), maf), running), RMul(maf, current))

\* t.mean(2, keepdim=True) of per-step statistics
RECURSIVE RSum(_)
RSum(seq) == IF seq = <<>> THEN Rat(0, 1) ELSE RAdd(Head(seq), RSum(Tail(seq)))

MeanOverSteps(seq) == RMul(RSum(seq), Rat(1, Len(seq)))

NoBuffers == [n \in {} |-> 0]

\* PervasiveBatchNorm.__init__ registering the buffers unconditionally
PervasiveBatchNorm_init_registering(track_running_stats, momentum) ==
    [momentum |-> momentum,
     gamma |-> Rat(1, 1),
     beta |-> Rat(0, 1),
     track_running_stats |-> track_running_stats,
     buffers |-> [running_mean |-> Rat(0, 1),
                  running_std |-> Rat(1, 1),
                  num_batches_tracked |-> 0]]

\* PervasiveBatchNorm.__init__, for one feature
PervasiveBatchNorm_init(track_running_stats, momentum) ==
    [momentum |-> momentum,
     gamma |-> Rat(1, 1),
     beta |-> Rat(0, 1),
     track_running_stats |-> track_running_stats,
     buffers |-> IF track_running_stats
                 THEN [running_mean |-> Rat(0, 1),
                       running_std |-> Rat(1, 1),
                       num_batches_tracked |-> 0]
                 ELSE NoBuffers]

\* reset_running_stats without self.running_std.fill_(1)
reset_running_stats_nostd(m) ==
    IF m.track_running_stats
    THEN [m EXCEPT !.buffers.running_mean = Rat(0, 1),
                   !.buffers.num_batches_tracked = 0]
    ELSE m

\* PervasiveBatchNorm.reset_running_stats
reset_running_stats(m) ==
    IF m.track_running_stats
    THEN [m EXCEPT !.buffers.running_mean = Rat(0, 1),
                   !.buffers.running_std = Rat(1, 1),
                   !.buffers.num_batches_tracked = 0]
    ELSE m

\* TracksBatch ignoring self.training
TracksBatch_always(m, training) == m.track_running_stats

\* the condition of the if in PervasiveBatchNorm.forward
TracksBatch(m, training) == training /\ m.track_running_stats

\* PervasiveBatchNorm.forward on a batch whose per-step mean and std (over
\* the batch and the source axis) are stats.mean and stats.std: the module
\* afterwards, how the call ended and the statistics used to normalize
PervasiveBatchNorm_forward(m, training, stats) ==
    IF TracksBatch(m, training)
    THEN LET n   == m.buffers.num_batches_tracked + 1
             maf == IF m.momentum = None THEN Rat(1, n) ELSE m.momentum
             T   == 1..Len(stats.mean)
         IN [module |-> [m EXCEPT
                 !.buffers.num_batches_tracked = n,
                 !.buffers.running_mean =
                     MovingAverage(maf, m.buffers.running_mean,
                                   MeanOverSteps(stats.mean)),
                 !.buffers.running_std =
                     MovingAverage(maf, m.buffers.running_std,
                                   MeanOverSteps(stats.std))],
             status |-> "ok",
             use_mean |-> [t \in T |->
                 MovingAverage(maf, m.buffers.running_mean, stats.mean[t])],
             use_std |-> [t \in T |->
                 MovingAverage(maf, m.buffers.running_std, stats.std[t])]]
    ELSE IF "running_mean" \in DOMAIN m.buffers /\ "running_std" \in DOMAIN m.buffers
    THEN [module |-> m,
          status |-> "ok",
          use_mean |-> <<m.buffers.running_mean>>,
          use_std |-> <<m.buffers.running_std>>]
    ELSE [module |-> m,
          status |-> "AttributeError",
          use_mean |-> <<>>,
          use_std |-> <<>>]

Momenta == {None, Rat(1, 2)}

\* per-step batch statistics (mean, std) of the inputs, two target steps
BatchStats ==
    {[mean |-> <<Rat(0, 1), Rat(0, 1)>>, std |-> <<Rat(1, 1), Rat(1, 1)>>],
     [mean |-> <<Rat(0, 1), Rat(2, 1)>>, std |-> <<Rat(1, 1), Rat(3, 1)>>],
     [mean |-> <<Rat(3, 1), Rat(3, 1)>>, std |-> <<Rat(2, 1), Rat(2, 1)>>]}

BNInit ==
    /\ \E t \in BOOLEAN : \E mo \in Momenta : bn = PervasiveBatchNorm_init(t, mo)
    /\ bn_last = [op |-> "init", training |-> FALSE, status |-> "ok",
                  before |-> bn, use_mean |-> <<>>, use_std |-> <<>>]
    /\ bn_train_calls = 0

\* a call of forward, in training or in eval mode
BNForward ==
    \E training \in BOOLEAN : \E stats \in BatchStats :
        /\ training => bn_train_calls < MaxBatches
        /\ LET r == PervasiveBatchNorm_forward(bn, training, stats)
           IN /\ bn' = r.module
              /\ bn_last' = [op |-> "forward", training |-> training,
                             status |-> r.status, before |-> bn,
                             use_mean |-> r.use_mean, use_std |-> r.use_std]
        /\ bn_train_calls' = IF training THEN bn_train_calls + 1 ELSE bn_train_calls
        /\ UNCHANGED <<netVars, layerVars, padVars>>

\* a call of reset_running_stats
BNReset ==
    /\ bn' = reset_running_stats(bn)
    /\ bn_last' = [op |-> "reset", training |-> FALSE, status |-> "ok",
                   before |-> bn, use_mean |-> <<>>, use_std |-> <<>>]
    /\ bn_train_calls' = 0
    /\ UNCHANGED <<netVars, layerVars, padVars>>

InitBN == BNInit /\ NetIdle /\ LayerIdle /\ PadIdle

NextBN ==
    \/ BNForward
    \/ BNReset

SpecBN == InitBN /\ [][NextBN]_vars

\* ------------------------------------------------------------ properties
\* the term of the input tensor and of x0, the first feature map
InputVal == Term("input", 0, <<>>)

RECURSIVE Repeat(_, _)
Repeat(e, n) == IF n <= 0 THEN <<>> ELSE <<e>> \o Repeat(e, n - 1)

Axes(t) == [k \in 1..Len(t.dims) |-> t.dims[k].axis]

IsAppend(old, new) ==
    /\ Len(new) = Len(old) + 1
    /\ SubSeq(new, 1, Len(old)) = old

\* C1: dense connectivity. The i-th dense layer is called with exactly
\* [x0, out_0, ..., out_{i-1}] in that order, where x0 is the permuted,
\* optionally channel-reduced input and out_j the value layer j returned; the
\* returned tensor is the concatenation along dimension 1 of all feature maps
\* in that order; and every step leaves the list alone or appends exactly one
\* element to it.
C1_DenseCall ==
    /\ \A i \in 1..Len(calls) :
         /\ calls[i].layer = i - 1
         /\ Len(calls[i].inputs) = i
         /\ calls[i].inputs[1].val =
              (IF args.divide_channels > 1
               THEN Term("reduce_channels", 0, <<InputVal>>) ELSE InputVal)
         /\ Axes(calls[i].inputs[1]) = <<"B", "C", "Tt", "Ts">>
         /\ \A j \in 1..(i - 1) : calls[i].inputs[j + 1] = calls[j].out
    /\ pc = "layers" =>
         /\ Len(features) = Len(calls) + 1
         /\ \A j \in 1..Len(calls) : features[j + 1] = calls[j].out
    /\ pc \in {"permute_out", "done"} =>
         /\ Len(calls) = args.num_layers
         /\ Len(features) = args.num_layers + 1
         /\ \A j \in 1..Len(calls) : features[j + 1] = calls[j].out
         /\ x.val = Term("cat", 1, [k \in 1..Len(features) |-> features[k].val])

C1_DenseConnectivity ==
    /\ []C1_DenseCall
    /\ [][features # <<>> => (features' = features \/ IsAppend(features, features'))]_vars

C1_Witness ==
    /\ pc = "done"
    /\ Len(calls) >= 2
    /\ calls[2].inputs = <<features[1], calls[1].out>>

\* the steps DenseNetNoNorm.forward is to take, in order
ExpectedTrace ==
    (IF args.divide_channels > 1 THEN <<"reduce_channels">> ELSE <<>>)
    \o <<"permute(0,3,1,2)">>
    \o Repeat("layer", args.num_layers)
    \o <<"cat", "permute(0,2,3,1)">>

\* C2: forward runs channel reduction, permute (0,3,1,2), the dense layers
\* in index order, the concatenation and permute (0,2,3,1), in that order;
\* the reduction runs iff divide_channels > 1 and otherwise the input reaches
\* the permute unchanged; the features are laid out B,C,Tt,Ts and the output
\* B,Tt,Ts,C with B, Tt and Ts of the input's sizes.
C2_StepOrder ==
    pc # "idle" =>
    /\ Len(trace) <= Len(ExpectedTrace)
    /\ trace = SubSeq(ExpectedTrace, 1, Len(trace))
    /\ \A i \in 1..Len(calls) : calls[i].layer = i - 1
    /\ pc = "permute_in" =>
         /\ (trace = <<"reduce_channels">>) <=> (args.divide_channels > 1)
         /\ args.divide_channels <= 1 =>
              x = InputTensor(num_init, call.x_requires_grad)
    /\ pc = "layers" =>
         /\ Axes(features[1]) = <<"B", "C", "Tt", "Ts">>
         /\ features[1].dims[1].size = 1
         /\ features[1].dims[3].size = TtLen
         /\ features[1].dims[4].size = TsLen
    /\ pc = "done" =>
         /\ trace = ExpectedTrace
         /\ Axes(x) = <<"B", "Tt", "Ts", "C">>
         /\ \A k \in 1..3 :
              x.dims[k] = InputTensor(num_init, call.x_requires_grad).dims[k]

C2_Witness ==
    /\ pc = "done"
    /\ args.divide_channels > 1
    /\ args.num_layers >= 2
    /\ trace[1] = "reduce_channels"

\* C4: channel bookkeeping. With C0 = num_init_features // divide_channels
\* and g = growth_rate, layer i's 1x1 convolution is built with C0 + i*g
\* input channels, which is the channel total of the list it is called with
\* (x0 has C0 channels, every layer output g); output_channels = C0 + n*g is
\* the channel count of the returned tensor.
C4_Channels ==
    pc # "idle" =>
    LET C0 == num_init \div args.divide_channels
        g  == args.growth_rate
    IN /\ Len(net.dense_layers) = args.num_layers
       /\ \A i \in 1..Len(net.dense_layers) :
            net.dense_layers[i].conv1.in_channels = C0 + (i - 1) * g
       /\ net.output_channels = C0 + args.num_layers * g
       /\ \A i \in 1..Len(calls) :
            /\ SumSizes(calls[i].inputs, 1) = net.dense_layers[i].conv1.in_channels
            /\ calls[i].inputs[1].dims[2] = Dim("C", C0)
            /\ calls[i].out.dims[2] = Dim("C", g)
       /\ pc = "layers" => features[1].dims[2] = Dim("C", C0)
       /\ pc = "done" => x.dims[4] = Dim("C", net.output_channels)

C4_Witness ==
    /\ pc = "done"
    /\ args.num_layers >= 2
    /\ args.divide_channels = 2
    /\ num_init = 3
    /\ x.dims[4].size = 1 + 2 * args.growth_rate

\* ------------------------------------------ properties of _DenseLayer
BottleneckEvents ==
    {k \in 1..Len(levents) : levents[k].op = "bottleneck_function"}

\* C3: the bottleneck runs through checkpoint iff memory_efficient is set
\* and some tensor of prev_features requires a gradient, and is called
\* directly otherwise; either way bottleneck_function runs exactly once on
\* prev_features and gives conv1(relu(cat(prev_features))); nothing after it
\* runs under checkpoint.
C3_CheckpointIff ==
    lpc \notin {"idle", "bottleneck"} =>
    /\ BottleneckEvents = {1}
    /\ levents[1].under_checkpoint <=>
         (lyr.memory_efficient /\
          \E k \in 1..Len(prev) : prev[k].requires_grad)
    /\ \A k \in 2..Len(levents) : ~levents[k].under_checkpoint
    /\ lpc = "relu" =>
         /\ lx.val = Term("conv1", lyr.idx,
                          <<Term("relu", 0,
                            <<Term("cat", 1, [k \in 1..Len(prev) |-> prev[k].val])>>)>>)
         /\ lx.dims = [prev[1].dims EXCEPT ![2].size = lyr.conv1.out_channels]
         /\ lx.requires_grad = lcall.grad_enabled

C3_Witness ==
    /\ lpc = "return"
    /\ levents[1] = Ev("bottleneck_function", TRUE)
    /\ Len(prev) = 2
    /\ ~prev[1].requires_grad

\* the positions of t a mask over the axis named axis selects
Selected(t, axis, mask) ==
    {pos \in Positions(t.dims) :
        \E k \in 1..Len(t.dims) :
            t.dims[k].axis = axis /\ <<1, pos[k]>> \in mask.true}

RestEvents(masking) ==
    <<Ev("relu", FALSE)>>
    \o (IF masking /\ lcall.encoder_mask # None
        THEN <<Ev("masked_fill(encoder_mask)", FALSE)>> ELSE <<>>)
    \o (IF masking /\ lcall.decoder_mask # None
        THEN <<Ev("masked_fill(decoder_mask)", FALSE)>> ELSE <<>>)
    \o <<Ev("mconv2", FALSE)>>

\* the place of an operation in the order ReLU, masking, convolution, dropout
Rank(ev) ==
    CASE ev.op = "bottleneck_function" -> 0
      [] ev.op = "relu" -> 1
      [] ev.op \in {"masked_fill(encoder_mask)", "masked_fill(decoder_mask)"} -> 2
      [] ev.op = "mconv2" -> 3
      [] ev.op = "dropout" -> 4

\* C5 as stated: the rest of the layer runs ReLU, masking, the masked
\* convolution and dropout in this order, and on every call with an
\* encoder_mask or decoder_mask the positions that mask selects (along Ts,
\* along Tt) are zero in the tensor fed to the spatial convolution.
C5_MaskedOnEveryCall ==
    lpc \in {"dropout", "return"} =>
    /\ \A i, j \in 1..Len(levents) : i < j => Rank(levents[i]) <= Rank(levents[j])
    /\ lcall.encoder_mask # None =>
         Selected(conv_in, "Ts", lcall.encoder_mask) \subseteq conv_in.zero
    /\ lcall.decoder_mask # None =>
         Selected(conv_in, "Tt", lcall.decoder_mask) \subseteq conv_in.zero

\* C5 amended: the rest of the layer runs ReLU, masking, the masked
\* convolution and dropout in this order; masking happens only in training
\* mode, where the positions the encoder_mask selects along Ts and the
\* decoder_mask along Tt are zero in the tensor fed to the convolution and no
\* other position is filled; in eval mode the masks are ignored and the
\* ReLU's output is fed to the convolution as it is; dropout is called last,
\* on the convolution's output, and only when drop_rate is non-zero.
C5_MaskedInTraining ==
    lpc \in {"dropout", "return"} =>
    LET enc == IF lcall.encoder_mask # None
               THEN Selected(conv_in, "Ts", lcall.encoder_mask) ELSE {}
        dec == IF lcall.decoder_mask # None
               THEN Selected(conv_in, "Tt", lcall.decoder_mask) ELSE {}
        n   == Len(RestEvents(lcall.training))
    IN /\ SubSeq(levents, 2, n + 1) = RestEvents(lcall.training)
       /\ lcall.training => conv_in.zero = enc \cup dec
       /\ ~lcall.training => conv_in.val.op = "relu" /\ conv_in.zero = {}
       /\ lpc = "dropout" => Len(levents) = n + 1 /\ lx.val.args = <<conv_in.val>>
       /\ lpc = "return" =>
            /\ Len(levents) = n + 1 + (IF lyr.drop_rate # 0 THEN 1 ELSE 0)
            /\ lyr.drop_rate # 0 => levents[Len(levents)] = Ev("dropout", FALSE)
            /\ lx.val = (IF lyr.drop_rate # 0 /\ lcall.training
                         THEN Term("dropout", 0,
                                   <<Term("mconv2", lyr.idx, <<conv_in.val>>)>>)
                         ELSE Term("mconv2", lyr.idx, <<conv_in.val>>))

C5_Witness ==
    /\ lpc = "return"
    /\ lcall.training
    /\ lyr.drop_rate # 0
    /\ lcall.encoder_mask = Mask(TsLen, {TsLen})
    /\ lcall.decoder_mask = Mask(TtLen, {1})
    /\ <<1, 1, 1, TsLen>> \in conv_in.zero
    /\ <<1, 2, 1, 1>> \in conv_in.zero
    /\ <<1, 1, TtLen, 1>> \notin conv_in.zero

\* ----------------------------------------- properties of the padding
\* C6: for every kernel_size >= 1 and every dilation >= 1 the padding
\* dilation*(kernel_size-1)//2 makes the stride-1 dilated convolution keep
\* the target and the source length.
C6_SizePreserving ==
    pad # Idle /\ pad.pc = "done" => pad.out = <<pad.Tt, pad.Ts>>

\* --------------------------------- properties of PervasiveBatchNorm
\* C7: with track_running_stats, num_batches_tracked is the number of
\* training-mode forward calls since the last reset (or construction), a
\* training-mode forward adds exactly 1 to it, and an eval-mode forward
\* leaves the module as it was and normalizes with the stored running_mean
\* and running_std.
C7_TrainingTimeTracking ==
    bn # Idle /\ bn.track_running_stats =>
    /\ bn.buffers.num_batches_tracked = bn_train_calls
    /\ bn_last.op = "forward" /\ bn_last.training =>
         /\ bn_last.status = "ok"
         /\ bn.buffers.num_batches_tracked =
              bn_last.before.buffers.num_batches_tracked + 1
    /\ bn_last.op = "forward" /\ ~bn_last.training =>
         /\ bn_last.status = "ok"
         /\ bn = bn_last.before
         /\ bn_last.use_mean = <<bn_last.before.buffers.running_mean>>
         /\ bn_last.use_std = <<bn_last.before.buffers.running_std>>

C7_Witness ==
    /\ bn # Idle /\ bn.track_running_stats
    /\ bn_last.op = "forward" /\ ~bn_last.training
    /\ bn.buffers.num_batches_tracked = 2
    /\ bn.buffers.running_mean # Rat(0, 1)
    /\ bn_last.use_mean = <<bn.buffers.running_mean>>

\* C8: reset_running_stats with track_running_stats restores the buffers
\* set at construction (running_mean 0, running_std 1, num_batches_tracked
\* 0) from any reachable state, is idempotent and leaves gamma and beta
\* alone; without track_running_stats it changes nothing and ends normally.
C8_ResetRestores ==
    bn # Idle =>
    LET r == reset_running_stats(bn)
        c == PervasiveBatchNorm_init(bn.track_running_stats, bn.momentum)
    IN /\ bn.track_running_stats =>
            /\ r.buffers = c.buffers
            /\ r.buffers = [running_mean |-> Rat(0, 1),
                            running_std |-> Rat(1, 1),
                            num_batches_tracked |-> 0]
       /\ ~bn.track_running_stats => r = bn
       /\ r.gamma = bn.gamma /\ r.beta = bn.beta
       /\ reset_running_stats(r) = r
       /\ bn_last.op = "reset" =>
            /\ bn_last.status = "ok"
            /\ bn.gamma = bn_last.before.gamma /\ bn.beta = bn_last.before.beta
            /\ bn.track_running_stats => bn.buffers = c.buffers
            /\ ~bn.track_running_stats => bn = bn_last.before

C8_Witness ==
    /\ bn # Idle /\ bn.track_running_stats
    /\ bn_last.op = "reset"
    /\ bn_last.before.buffers.num_batches_tracked = 2
    /\ bn_last.before.buffers.running_std # Rat(1, 1)
    /\ bn.buffers.num_batches_tracked = 0
    /\ bn.buffers.running_std = Rat(1, 1)

\* C9: without track_running_stats no buffer is ever registered and every
\* forward call, in training as in eval mode, ends in an AttributeError on
\* running_mean / running_std and leaves the module as it was, whatever
\* calls came before.
C9_UntrackedForwardFails ==
    bn # Idle /\ ~bn.track_running_stats =>
    /\ DOMAIN bn.buffers = {}
    /\ bn_last.op = "forward" =>
         /\ bn_last.status = "AttributeError"
         /\ bn = bn_last.before

C9_Witness ==
    /\ bn # Idle /\ ~bn.track_running_stats
    /\ bn_last.op = "forward" /\ bn_last.training
    /\ bn_last.status = "AttributeError"
    /\ bn_train_calls = 2

====
